---- MODULE Spec2Model ----
(***************************************************************************)
(* Model of the dashboard batch scripts                                    *)
(*   src/dashboard/embedding_plot.py         (variant "embedding_plot")    *)
(*   src/dashboard/random_embedding_plot.py  (variant "random_embedding_plot") *)
(* One run of a script is the __main__ loop over AESTHETICS calling         *)
(* generate_plot once per category.  Python lists are sequences; Python's   *)
(* 0-based index i is the 1-based index i+1 here.  A raised, uncaught       *)
(* exception ends the process: pc = "crashed".                              *)
(* The variable src is a history (ghost) variable: for every element of a   *)
(* list it records the number of the input line that element was parsed     *)
(* from.  A coordinate row is represented by the line number of the vector  *)
(* it is the reduction of (the reducer itself is a black box).              *)
(***************************************************************************)
EXTENDS Integers, Sequences, FiniteSets, TLC

\* ------------------------------------------------------------------ bounds
MaxLines == 3      \* lines per input file
NumCats  == 2      \* categories of the mapping that are run, in mapping order

\* --------------------------------------------------------- configuration
AllAesthetics ==
    << "FA_DORFic", "FA_classic", "FA_Frutiger_Metro",
       "FA_Frutiger_Eco", "FA_Technozen", "FA_Dark_Aero" >>

AESTHETICS == SubSeq(AllAesthetics, 1, IF NumCats < 6 THEN NumCats ELSE 6)

CLUSTERS ==
    [ FA_classic |->
        << <<"Chess", "Chessboard">>,
           <<"Meadow", "Grasses">>,
           <<"Underwater", "Ocellaris_Clownfish", "Aquarium", "Sea", "Fish",
             "Pomacentridae">> >>,
      FA_DORFic |->
        << <<"Apples", "Citrus">>,
           <<"Exhibition", "Modern_Art">>,
           <<"Produce", "Food">>,
           <<"Operating_System", "Software", "Multimedia_Software">> >>,
      FA_Frutiger_Eco |->
        << <<"Tropics", "Water", "Ocean">>,
           <<"Map", "Atlas">>,
           <<"Garden", "Green">>,
           <<"Cloud", "Cumulus">>,
           <<"Technology", "Machine">> >>,
      FA_Dark_Aero |->
        << <<"Moon", "Moonlight", "Full_Moon">>,
           <<"Feature_Phone", "Communication_Device">>,
           <<"Computer", "Technology", "Operating_System">>,
           <<"Fluid", "Liquid">> >>,
      FA_Frutiger_Metro |->
        << <<"Chordophone", "Musical_Ensemble", "Disco">>,
           <<"Graphic_Design", "Packaging_And_Labeling">>,
           <<"Music", "Jazz">> >>,
      FA_Technozen |->
        << <<"Soft_Tennis", "Sports_Venue", "Tennis_Court", "Racketlon">>,
           <<"Evergreen", "Bamboo">>,
           <<"Nintendo_3ds", "Wii", "Portable_Electronic_Game">>,
           <<"Rapid_Transport", "Mode_Of_Transport", "Train">> >> ]

LINE_COLORS ==
    << "rgba(255,120,120,0.85)", "rgba(120,255,120,0.85)",
       "rgba(120,120,255,0.85)", "rgba(255,200,120,0.85)",
       "rgba(180,120,255,0.85)", "rgba(120,255,255,0.85)",
       "rgba(255,180,220,0.85)", "rgba(220,255,180,0.85)" >>

OUTLIERS ==
    [ FA_classic        |-> <<"Blue", "Ocean">>,
      FA_DORFic         |-> <<"Graphic_Design", "Plastic", "Interior_Design", "Apples">>,
      FA_Frutiger_Eco   |-> <<"Floor">>,
      FA_Dark_Aero      |-> <<"Audio_Equiptment", "Loudspeaker", "Operating_System">>,
      FA_Frutiger_Metro |-> <<"Black", "Sticker", "Motif", "Mobile_Device",
                              "Compact_Disk", "Silhouette", "Wallpaper",
                              "Psychadelic_Art">>,
      FA_Technozen      |-> <<"Shelving", "Corporate Headquarters">> ]

stable_perplexity == 20
random_perplexity == 30

\* ------------------------------------------------------------- helpers
Range(s) == { s[i] : i \in 1..Len(s) }

Min2(a, b) == IF a < b THEN a ELSE b

\* ----------------------------------------------------------- input lines
\* A line is the sequence of its ':'-separated pieces.  The contents of the
\* input files are not part of the repository: every line of a file is drawn
\* from LinesOf(aesthetic).
GoodLine(name, inst, vec) == << name, "0.9", inst, vec >>

LinesOf(aesthetic) ==
    IF aesthetic = "FA_DORFic"
    THEN { GoodLine("Operating_System", "2", "[1.0,0.0]"),
           GoodLine("Software", "5", "[0.0,1.0]"),
           GoodLine("Multimedia_Software", "1", "[1.0,1.0]"),
           GoodLine("Apples", "2", "[0.5,0.5]"),
           GoodLine("Apples", "2", "[0.5]"),
           << "Software", "high", "5", "[0.0,1.0]" >>,
           << "Operating_System", "0.9", "five", "[1.0,0.0]" >>,
           << "Multimedia_Software", "0.9", "1", "[1.0," >>,
           << "Software", "0.9", "5" >>,
           << "Software", "0.9", "5", "[0.0", "1.0]" >>,
           << "" >> }
    ELSE IF aesthetic = "FA_classic"
    THEN { GoodLine("Chess", "2", "[1.0,0.0]"),
           GoodLine("Chessboard", "5", "[0.0,1.0]"),
           GoodLine("Meadow", "1", "[1.0,1.0]"),
           GoodLine("Grasses", "1", "[0.5,0.5]"),
           GoodLine("Blue", "2", "[0.5]"),
           << "Chess", "high", "2", "[1.0,0.0]" >>,
           << "Meadow", "0.9", "five", "[1.0,1.0]" >>,
           << "Blue", "0.9", "2", "[0.5," >>,
           << "Chess", "0.9" >>,
           << "# comment" >> }
    ELSE { GoodLine("Music", "2", "[1.0,0.0]"),
           GoodLine("Jazz", "5", "[0.0,1.0]"),
           GoodLine("Black", "1", "[1.0]"),
           << "Jazz", "high", "5", "[0.0,1.0]" >>,
           << "Music", "0.9", "five", "[1.0,0.0]" >>,
           << "Black", "0.9", "1", "[1.0," >>,
           << "Music" >> }

\* ":" in line
HasColon(line) == Len(line) > 1

RECURSIVE JoinColon(_)
JoinColon(pieces) ==
    IF Len(pieces) = 1 THEN pieces[1]
    ELSE pieces[1] \o ":" \o JoinColon(Tail(pieces))

\* line.strip().split(":", 3): at most three splits, the rest stays joined
\* in the last field.
split3(line) ==
    IF Len(line) <= 4 THEN line
    ELSE << line[1], line[2], line[3], JoinColon(SubSeq(line, 4, Len(line))) >>

\* The three conversions return << value >>, or << >> when Python raises.
\* float(score): the value in tenths
float(s) ==
    CASE s = "0.9" -> << 9 >>
      [] s = "2"   -> << 20 >>
      [] s = "5"   -> << 50 >>
      [] s = "1"   -> << 10 >>
      [] OTHER     -> << >>

\* int(inst)
int(s) ==
    CASE s = "2" -> << 2 >>
      [] s = "5" -> << 5 >>
      [] s = "1" -> << 1 >>
      [] OTHER   -> << >>

\* ast.literal_eval(vec_str), components in tenths
literal_eval(s) ==
    CASE s = "[1.0,0.0]" -> << << 10, 0 >> >>
      [] s = "[0.0,1.0]" -> << << 0, 10 >> >>
      [] s = "[1.0,1.0]" -> << << 10, 10 >> >>
      [] s = "[0.5,0.5]" -> << << 5, 5 >> >>
      [] s = "[0.5]"     -> << << 5 >> >>
      [] s = "[1.0]"     -> << << 10 >> >>
      [] OTHER           -> << >>

Raises(r) == r = << >>

VARIABLES
    variant,            \* which script runs
    pc,                 \* position of the process
    idx,                \* position of the __main__ loop in AESTHETICS
    calls,              \* generate_plot invocations so far (aesthetics, in order)
    out,                \* output file of each category: "absent" or "written"
    err,                \* the statement that raised, "" when none did
    file,               \* lines of the current input file consumed so far
    labels, scores, instances, vectors,
    filtered_labels, filtered_instances, filtered_vectors,
    coords,             \* rows of the reducer's output
    points,             \* the markers trace handed to the renderer
    segments,           \* the overlay line traces added to the figure
    src                 \* history: source line of every list element

vars == << variant, pc, idx, calls, out, err, file, labels, scores, instances,
           vectors, filtered_labels, filtered_instances, filtered_vectors,
           coords, points, segments, src >>

locals == << file, labels, scores, instances, vectors, filtered_labels,
             filtered_instances, filtered_vectors, coords, points, segments, src >>

NoSrc == [ labels |-> << >>, scores |-> << >>, instances |-> << >>,
           vectors |-> << >>, filtered_labels |-> << >>,
           filtered_instances |-> << >>, filtered_vectors |-> << >> ]

NoPoints == [ x |-> << >>, size |-> << >>, color |-> << >>, text |-> << >>,
              textsrc |-> << >>, sizesrc |-> << >> ]

aesthetic == AESTHETICS[idx]

Init ==
    /\ variant \in {"embedding_plot", "random_embedding_plot"}
    /\ pc = "main"
    /\ idx = 1
    /\ calls = << >>
    /\ out = [ a \in Range(AESTHETICS) |-> "absent" ]
    /\ err = ""
    /\ file = << >>
    /\ labels = << >> /\ scores = << >> /\ instances = << >> /\ vectors = << >>
    /\ filtered_labels = << >> /\ filtered_instances = << >>
    /\ filtered_vectors = << >>
    /\ coords = << >>
    /\ points = NoPoints
    /\ segments = << >>
    /\ src = NoSrc

ResetLocals ==
    /\ file' = << >>
    /\ labels' = << >> /\ scores' = << >> /\ instances' = << >> /\ vectors' = << >>
    /\ filtered_labels' = << >> /\ filtered_instances' = << >>
    /\ filtered_vectors' = << >>
    /\ coords' = << >>
    /\ points' = NoPoints
    /\ segments' = << >>
    /\ src' = NoSrc


\* ------------------------------------------------------------ __main__
\* A plausible slip: no existence test, open() raises FileNotFoundError.
GeneratePlotMissingRaises ==
    /\ pc = "main"
    /\ idx <= Len(AESTHETICS)
    /\ calls' = Append(calls, aesthetic)
    /\ pc' = "crashed"
    /\ err' = "open"
    /\ UNCHANGED << variant, idx, out, locals >>

\* generate_plot(aesthetic, html_file) is entered and os.path.exists is
\* False: "Missing: ..." is printed and the call returns.
GeneratePlotMissing ==
    /\ pc = "main"
    /\ idx <= Len(AESTHETICS)
    /\ calls' = Append(calls, aesthetic)
    /\ idx' = idx + 1
    /\ UNCHANGED << variant, pc, out, err, locals >>

\* generate_plot is entered and the vector file exists: the lists are
\* created empty and the file is opened.
GeneratePlotOpen ==
    /\ pc = "main"
    /\ idx <= Len(AESTHETICS)
    /\ calls' = Append(calls, aesthetic)
    /\ pc' = "load"
    /\ UNCHANGED << variant, idx, out, err, locals >>

\* The for loop over AESTHETICS.items() is exhausted; the last print.
Finish ==
    /\ pc = "main"
    /\ idx > Len(AESTHETICS)
    /\ pc' = "done"
    /\ UNCHANGED << variant, idx, calls, out, err, locals >>

\* ------------------------------------------------------- Vector Loader
Loaded == [ labels |-> labels, scores |-> scores, instances |-> instances,
            vectors |-> vectors, src |-> src ]

\* The body of the try block for line number n: the statements run in
\* order and the first one that raises leaves the earlier appends in place.
\* embedding_plot.py parses the score, random_embedding_plot.py does not.
TryBlock(L, line, n, withScores) ==
    LET fields == split3(line)
    IN IF Len(fields) # 4 THEN L          \* unpacking raises ValueError
       ELSE
       LET L1 == [ L EXCEPT !.labels = Append(@, fields[1]),
                            !.src.labels = Append(@, n) ]
           sc == float(fields[2])
           L2 == IF withScores
                 THEN [ L1 EXCEPT !.scores = Append(@, sc[1]),
                                  !.src.scores = Append(@, n) ]
                 ELSE L1
           in == int(fields[3])
           L3 == [ L2 EXCEPT !.instances = Append(@, in[1]),
                             !.src.instances = Append(@, n) ]
           ve == literal_eval(fields[4])
           L4 == [ L3 EXCEPT !.vectors = Append(@, ve[1]),
                             !.src.vectors = Append(@, n) ]
       IN IF withScores /\ Raises(sc) THEN L1
          ELSE IF Raises(in) THEN L2
          ELSE IF Raises(ve) THEN L3
          ELSE L4

\* One iteration of "for line in f".
LoadLine(L, line, n, withScores) ==
    IF ~HasColon(line) THEN L ELSE TryBlock(L, line, n, withScores)

ReadLine ==
    /\ pc = "load"
    /\ Len(file) < MaxLines
    /\ \E line \in LinesOf(aesthetic) :
         LET L == LoadLine(Loaded, line, Len(file) + 1,
                           variant = "embedding_plot")
         IN /\ file' = Append(file, line)
            /\ labels' = L.labels
            /\ scores' = L.scores
            /\ instances' = L.instances
            /\ vectors' = L.vectors
            /\ src' = L.src
    /\ UNCHANGED << variant, pc, idx, calls, out, err, filtered_labels,
                    filtered_instances, filtered_vectors, coords, points,
                    segments >>

\* np.array(rows) is a rectangular N x D matrix
Rectangular(rows) ==
    /\ Len(rows) > 0
    /\ \A i \in 1..Len(rows) : Len(rows[i]) = Len(rows[1])

\* embedding_plot.py: end of file, vectors = np.array(vectors) and the
\* print of vectors.shape[1].  With no row the array has shape (0,); with
\* rows of different lengths np.array raises ValueError (NumPy >= 1.24) or
\* builds a 1-D object array: reading shape[1] raises IndexError.
ToArray ==
    /\ pc = "load"
    /\ variant = "embedding_plot"
    /\ IF Rectangular(vectors)
       THEN /\ pc' = "tsne"
            /\ err' = err
       ELSE /\ pc' = "crashed"
            /\ err' = "np.array"
    /\ UNCHANGED << variant, idx, calls, out, locals >>


\* ------------------------------------------------------ Outlier Filter
\* zip(labels, instances, vectors): stops at the shortest list.  Each
\* element also carries the source lines of its three components.
zip(ls, is, vs, s) ==
    [ i \in 1..Min2(Len(ls), Min2(Len(is), Len(vs))) |->
        [ lbl |-> ls[i], inst |-> is[i], vec |-> vs[i],
          src |-> << s.labels[i], s.instances[i], s.vectors[i] >> ] ]

NoFiltered == [ labels |-> << >>, instances |-> << >>, vectors |-> << >>,
                srcl |-> << >>, srci |-> << >>, srcv |-> << >> ]

\* A plausible slip: the label is appended before the membership test.
FilterIterLabelFirst(acc, rec, drop) ==
    IF rec.lbl \notin drop
    THEN [ labels    |-> Append(acc.labels, rec.lbl),
           instances |-> Append(acc.instances, rec.inst),
           vectors   |-> Append(acc.vectors, rec.vec),
           srcl      |-> Append(acc.srcl, rec.src[1]),
           srci      |-> Append(acc.srci, rec.src[2]),
           srcv      |-> Append(acc.srcv, rec.src[3]) ]
    ELSE [ acc EXCEPT !.labels = Append(@, rec.lbl),
                      !.srcl = Append(@, rec.src[1]) ]

\* One iteration of the filter loop: "if lbl not in drop" and the appends.
FilterIter(acc, rec, drop) ==
    IF rec.lbl \notin drop
    THEN [ labels    |-> Append(acc.labels, rec.lbl),
           instances |-> Append(acc.instances, rec.inst),
           vectors   |-> Append(acc.vectors, rec.vec),
           srcl      |-> Append(acc.srcl, rec.src[1]),
           srci      |-> Append(acc.srci, rec.src[2]),
           srcv      |-> Append(acc.srcv, rec.src[3]) ]
    ELSE acc

RECURSIVE FilterLoop(_, _, _)
FilterLoop(recs, drop, acc) ==
    IF recs = << >> THEN acc
    ELSE FilterLoop(Tail(recs), drop, FilterIter(acc, Head(recs), drop))

\* set(OUTLIERS.get(aesthetic, []))
DropSet(a) == IF a \in DOMAIN OUTLIERS THEN Range(OUTLIERS[a]) ELSE {}

\* random_embedding_plot.py: end of file, the outlier removal, then
\* vectors = np.array(filtered_vectors) and instances = filtered_instances.
\* With rows of different lengths np.array raises ValueError (NumPy >= 1.24)
\* or builds an object array that the reducer rejects afterwards.
Filter ==
    /\ pc = "load"
    /\ variant = "random_embedding_plot"
    /\ LET F == FilterLoop(zip(labels, instances, vectors, src),
                           DropSet(aesthetic), NoFiltered)
           ragged == Len(F.vectors) > 0 /\ ~Rectangular(F.vectors)
       IN /\ filtered_labels' = F.labels
          /\ filtered_instances' = F.instances
          /\ filtered_vectors' = F.vectors
          /\ vectors' = F.vectors
          /\ instances' = F.instances
          /\ src' = [ src EXCEPT !.filtered_labels = F.srcl,
                                 !.filtered_instances = F.srci,
                                 !.filtered_vectors = F.srcv,
                                 !.vectors = F.srcv,
                                 !.instances = F.srci ]
          /\ \E raised \in (IF ragged THEN BOOLEAN ELSE {FALSE}) :
                /\ pc' = IF raised THEN "crashed" ELSE "tsne"
                /\ err' = IF raised THEN "np.array" ELSE err
    /\ UNCHANGED << variant, idx, calls, out, file, labels, scores, coords,
                    points, segments >>

\* ------------------------------------------------------------- Reducer
perplexity == IF variant = "embedding_plot" THEN stable_perplexity
                                             ELSE random_perplexity

\* run_tsne(vectors): what TSNE.fit_transform can do with the matrix.  An
\* empty or non-rectangular input is rejected by input validation; a
\* perplexity that is not below the sample count is rejected by
\* scikit-learn >= 1.2 and accepted by earlier releases.
run_tsne(vs) ==
    IF ~Rectangular(vs) THEN {"raise"}
    ELSE {"ok"} \cup (IF Len(vs) <= perplexity THEN {"raise"} ELSE {})

\* sizes = [(inst * 2) + 6 for inst in instances]
sizes(insts) == [ i \in 1..Len(insts) |-> (insts[i] * 2) + 6 ]

\* coords = run_tsne(vectors), the marker sizes and the "Points" trace.
\* Row i of coords is the reduction of row i of vectors.
Reduce ==
    /\ pc = "tsne"
    /\ \E r \in run_tsne(vectors) :
         IF r = "raise"
         THEN /\ pc' = "crashed"
              /\ err' = "run_tsne"
              /\ UNCHANGED << coords, points >>
         ELSE /\ coords' = src.vectors
              /\ points' =
                   [ x       |-> src.vectors,
                     size    |-> sizes(instances),
                     color   |-> instances,
                     text    |-> IF variant = "embedding_plot"
                                 THEN labels ELSE filtered_labels,
                     textsrc |-> IF variant = "embedding_plot"
                                 THEN src.labels ELSE src.filtered_labels,
                     sizesrc |-> src.instances ]
              /\ pc' = IF variant = "embedding_plot" THEN "overlay" ELSE "write"
              /\ err' = err
    /\ UNCHANGED << variant, idx, calls, out, file, labels, scores, instances,
                    vectors, filtered_labels, filtered_instances,
                    filtered_vectors, segments, src >>


\* ----------------------------------------------- Cluster Overlay Builder
\* {label: i for i, label in enumerate(labels)}: a later occurrence of a
\* label overwrites the earlier one.
label_to_idx(lbls) ==
    [ l \in Range(lbls) |->
        CHOOSE i \in 1..Len(lbls) :
            lbls[i] = l /\ \A j \in (i+1)..Len(lbls) : lbls[j] # l ]

\* [label_to_idx[l] for l in group if l in label_to_idx]
indices(group, lbls) ==
    LET present == SelectSeq(group, LAMBDA l : l \in Range(lbls))
    IN [ p \in 1..Len(present) |-> label_to_idx(lbls)[present[p]] ]

\* itertools.combinations(s, 2), in the order it yields the pairs
RECURSIVE combinations2(_)
combinations2(s) ==
    IF Len(s) < 2 THEN << >>
    ELSE [ q \in 1..(Len(s) - 1) |-> << s[1], s[q + 1] >> ]
         \o combinations2(Tail(s))

\* A plausible slip: the counter is advanced before the colour is read.
GroupColorAfterIncrement(color_i) ==
    LINE_COLORS[((color_i + 1) % Len(LINE_COLORS)) + 1]

\* LINE_COLORS[color_i % len(LINE_COLORS)], color_i counted from 0
GroupColor(color_i) == LINE_COLORS[(color_i % Len(LINE_COLORS)) + 1]

\* The inner loop over the pairs of one group: each pair reads x[i] and
\* x[j] (IndexError beyond the rows of coords) and adds one line trace.
\* g is the 0-based position of the group in the cluster list.
RECURSIVE AddPairs(_, _, _, _)
AddPairs(acc, pairs, g, color) ==
    IF pairs = << >> THEN acc
    ELSE LET i == Head(pairs)[1]
             j == Head(pairs)[2]
         IN IF i > Len(coords) \/ j > Len(coords)
            THEN [ acc EXCEPT !.raised = TRUE ]
            ELSE AddPairs(
                   [ acc EXCEPT !.segs = Append(@,
                        [ group |-> g, i |-> i, j |-> j,
                          a |-> coords[i], b |-> coords[j],
                          color |-> color,
                          hover |-> << labels[i], labels[j] >> ]) ],
                   Tail(pairs), g, color)

\* The loop "for group in CLUSTERS[aesthetic]" with its counter color_i.
RECURSIVE OverlayLoop(_, _, _, _)
OverlayLoop(acc, groups, g, color_i) ==
    IF groups = << >> \/ acc.raised THEN acc
    ELSE OverlayLoop(
           AddPairs(acc, combinations2(indices(Head(groups), labels)),
                    g, GroupColor(color_i)),
           Tail(groups), g + 1, color_i + 1)

Overlay ==
    /\ pc = "overlay"
    /\ LET R == IF aesthetic \in DOMAIN CLUSTERS
                THEN OverlayLoop([ segs |-> << >>, raised |-> FALSE ],
                                 CLUSTERS[aesthetic], 0, 0)
                ELSE [ segs |-> << >>, raised |-> FALSE ]
       IN /\ segments' = R.segs
          /\ pc' = IF R.raised THEN "crashed" ELSE "write"
          /\ err' = IF R.raised THEN "overlay" ELSE err
    /\ UNCHANGED << variant, idx, calls, out, file, labels, scores, instances,
                    vectors, filtered_labels, filtered_instances,
                    filtered_vectors, coords, points, src >>

\* ------------------------------------------------------- Page Renderer
\* The layout, the HTML page and the write of the output file; the call
\* returns and the loop moves to the next category.
Write ==
    /\ pc = "write"
    /\ out' = [ out EXCEPT ![aesthetic] = "written" ]
    /\ idx' = idx + 1
    /\ pc' = "main"
    /\ ResetLocals
    /\ UNCHANGED << variant, calls, err >>

Next ==
    \/ GeneratePlotMissing
    \/ GeneratePlotOpen
    \/ Finish
    \/ ReadLine
    \/ ToArray
    \/ Filter
    \/ Reduce
    \/ Overlay
    \/ Write

Spec == Init /\ [][Next]_vars


\* =================================================================
\* Properties
\* =================================================================
withScores == variant = "embedding_plot"

\* The end of the file can follow any line, so every state with pc = "load"
\* is the state of the loader after it consumed all lines of some file.
SameLengths ==
    /\ Len(instances) = Len(labels)
    /\ Len(vectors) = Len(labels)
    /\ withScores => Len(scores) = Len(labels)

SameLines ==
    \A i \in 1..Len(labels) :
       /\ i <= Len(instances) => src.instances[i] = src.labels[i]
       /\ i <= Len(vectors) => src.vectors[i] = src.labels[i]
       /\ i <= Len(scores) => src.scores[i] = src.labels[i]

\* C1: after the loader loop has consumed all lines of any file, the loaded
\* sequences have the same length and the i-th element of each was parsed
\* from the same input line.
C1_AlignedAfterLoad == pc = "load" => SameLengths /\ SameLines

\* A line with ':' that does not have the shape name:score:count:vector
Malformed(line) ==
    /\ HasColon(line)
    /\ \/ Len(split3(line)) # 4
       \/ Raises(float(split3(line)[2]))
       \/ Raises(int(split3(line)[3]))
       \/ Raises(literal_eval(split3(line)[4]))

AllSrc ==
    Range(src.labels) \cup Range(src.scores) \cup Range(src.instances)
      \cup Range(src.vectors)

\* C2: a line with ':' that fails to parse contributes no element to any of
\* the loaded sequences, and the loader keeps reading after it.
C2_MalformedLineSkipped ==
    pc = "load" =>
       \A n \in 1..Len(file) : Malformed(file[n]) => n \notin AllSrc

\* C3: the label and the instance count shown for point i come from the
\* input line whose vector was reduced to coordinate row i, and there are
\* as many labels as coordinate rows.
C3_PointsAligned ==
    pc \in {"overlay", "write"} =>
       /\ Len(points.text) = Len(points.x)
       /\ Len(points.size) = Len(points.x)
       /\ \A i \in 1..Len(points.x) :
             /\ points.textsrc[i] = points.x[i]
             /\ points.sizesrc[i] = points.x[i]

\* C4: the loader keeps no two vectors of different lengths, and the array
\* conversion that follows it raises only when no vector was loaded.
C4_MixedDimensionRejected ==
    /\ pc = "load" =>
          \A i, j \in 1..Len(vectors) : Len(vectors[i]) = Len(vectors[j])
    /\ (pc = "crashed" /\ err = "np.array") => vectors = << >>

\* The filter step outputs exactly the zipped records whose label is not in
\* the deny set, in input order, the three filtered sequences built from
\* the same records.
C5_FilterStep ==
    (pc = "load" /\ pc' # "load" /\ variant = "random_embedding_plot") =>
       LET recs == zip(labels, instances, vectors, src)
           drop == IF aesthetic \in DOMAIN OUTLIERS
                   THEN Range(OUTLIERS[aesthetic]) ELSE {}
           kept == SelectSeq(recs, LAMBDA r : r.lbl \notin drop)
       IN /\ filtered_labels' = [ i \in 1..Len(kept) |-> kept[i].lbl ]
          /\ filtered_instances' = [ i \in 1..Len(kept) |-> kept[i].inst ]
          /\ filtered_vectors' = [ i \in 1..Len(kept) |-> kept[i].vec ]
          /\ src'.filtered_labels = [ i \in 1..Len(kept) |-> kept[i].src[1] ]
          /\ src'.filtered_instances = [ i \in 1..Len(kept) |-> kept[i].src[2] ]
          /\ src'.filtered_vectors = [ i \in 1..Len(kept) |-> kept[i].src[3] ]

\* C5: every filter step of every run outputs exactly the records whose
\* label is not denied, in input order and positionally aligned.
C5_FilterExact == [][C5_FilterStep]_vars

\* A denied label was loaded and dropped while another record survived.
C5_Witness ==
    /\ variant = "random_embedding_plot"
    /\ pc = "tsne"
    /\ \E i \in 1..Len(labels) : labels[i] \in DropSet(aesthetic)
    /\ Len(filtered_labels) >= 1
    /\ Len(filtered_labels) < Len(labels)

\* Number of overlay segments of the group at 0-based position g
SegmentsOf(g) ==
    Cardinality({ n \in 1..Len(segments) : segments[n].group = g })

\* Labels of a group that occur among the loaded labels
Present(group) == Range(group) \cap Range(labels)

\* C6: once the overlay builder has run, every group with k present labels
\* has exactly k*(k-1)/2 segments.
C6_SegmentCount ==
    (\/ pc = "write" /\ variant = "embedding_plot"
     \/ pc = "crashed" /\ err = "overlay") =>
       \A g \in 1..Len(CLUSTERS[aesthetic]) :
          LET k == Cardinality(Present(CLUSTERS[aesthetic][g]))
          IN SegmentsOf(g - 1) = (k * (k - 1)) \div 2

\* C7: when the run has ended, generate_plot has been invoked once for
\* every category of the mapping, in mapping order.
C7_AllCategoriesInvoked ==
    pc \in {"done", "crashed"} => calls = AESTHETICS

\* A call that does not open the input file (the file is missing) returns
\* without raising and without touching any output file, and hands control
\* to the next position of the mapping.
C8_SkipStep ==
    (pc = "main" /\ calls' # calls /\ pc' # "load") =>
       /\ pc' = "main"
       /\ err' = err
       /\ out' = out
       /\ idx' = idx + 1
       /\ calls' = Append(calls, AESTHETICS[idx])

\* C8: a category whose input file is missing is skipped without an error
\* and without writing its output file; categories are invoked in mapping
\* order, and a run that reaches the end has invoked all of them.
C8_MissingFileSkipped ==
    /\ [][C8_SkipStep]_vars
    /\ [](calls = SubSeq(AESTHETICS, 1, Len(calls)))
    /\ [](pc = "done" => calls = AESTHETICS)

\* The run reached the end of the mapping, having skipped one category and
\* written the page of another.
C8_Witness ==
    /\ pc = "done"
    /\ \E a \in Range(AESTHETICS) : out[a] = "absent"
    /\ \E a \in Range(AESTHETICS) : out[a] = "written"

\* C9: every overlay segment of the group at 0-based position g has the
\* colour LINE_COLORS[g mod len(LINE_COLORS)].
C9_GroupColour ==
    \A n \in 1..Len(segments) :
       segments[n].color =
          LINE_COLORS[(segments[n].group % Len(LINE_COLORS)) + 1]

\* A segment was produced for a group that follows groups without segments.
C9_Witness ==
    /\ pc = "write"
    /\ \E n \in 1..Len(segments) : segments[n].group > 0

\* C10: both endpoints of every overlay segment are rows of coords, and each
\* is the coordinate of a record whose label belongs to the segment's group.
C10_SegmentEndpoints ==
    \A n \in 1..Len(segments) :
       LET s == segments[n]
           group == CLUSTERS[aesthetic][s.group + 1]
       IN /\ s.i \in 1..Len(coords)
          /\ s.j \in 1..Len(coords)
          /\ file[s.a][1] \in Range(group)
          /\ file[s.b][1] \in Range(group)

====
